---- MODULE Spec2Model ----
(***************************************************************************)
(* Model of Backend/app.js: the Express server with the two upload routes  *)
(* POST /upload-pdf and POST /upload-image.  Every request passes the CORS *)
(* middleware, then multer's disk storage, then the route handler, whose   *)
(* steps are split at the handler's await points.  Requests interleave at  *)
(* those points, as they do on the Node.js event loop.                     *)
(***************************************************************************)
EXTENDS Integers, Sequences, FiniteSets, TLC

\* ---------------------------------------------------------------- bounds
NReq     == 2      \* requests the server receives in one run
MaxTime  == 2      \* distinct values Date.now() takes during the run
MaxPages == 2      \* doc.numPages of an uploaded PDF is at most this

Reqs == 1..NReq

\* ------------------------------------------------------- input alphabets
Null     == "null"          \* JavaScript null
NoFile   == << >>          \* req.file is undefined: no path
NoField  == "undefined"     \* an absent header / form field / env variable

whitelist == << "https://social-media-analyzer-frontend-wva8.onrender.com",
                "http://localhost:3000",
                "http://localhost:5173" >>

\* Values of the Origin header a client can send (NoField: no header).
Origins == { NoField, "", "http://localhost:5173", "https://evil.example" }

Names      == { "post.pdf", "scan.png" }          \* file.originalname
Routes     == { "/upload-pdf", "/upload-image" }
FlagValues == { "true", "false", NoField }         \* req.body.analyze / scanned
EnvKeys    == { NoField, "key" }                   \* process.env.GEMINI_API_KEY

\* Texts are sequences of characters.
Whitespace == { " ", "\n" }
DocTexts   == { <<>>, <<" ", "\n">>, <<" ", "a">> }   \* pdfParse / image OCR output
PageTexts  == { <<>>, <<"a">> }                       \* OCR output of one page
AiTexts    == { "markdown" }                          \* text of the AI candidate

VARIABLES
    now,            \* Date.now()
    GEMINI_API_KEY, \* process.env.GEMINI_API_KEY
    disk,           \* uploads/: staged path |-> requests whose upload wrote the file
    pc,             \* position of each request
    route,          \* the endpoint of each request
    origin,         \* req.headers.origin, kept until a route handler has the request
    filePath,       \* req.file.path (NoFile: req.file is undefined)
    analyze,        \* req.body.analyze, drawn where the handler tests it
    extractedText,  \* let extractedText
    numPages,       \* doc.numPages (scanned PDF)
    pageNo,         \* loop variable i (scanned PDF)
    canvases,       \* page canvases created and not yet destroyed
    res,            \* responses sent on res, in order
    extracted,      \* the handler reached "Text extraction complete."
    analysisCalls,  \* invocations of getSocialMediaAnalysis
    networkCalls,   \* axios.post requests issued
    unlinks,        \* fs.unlinkSync calls of the handler's finally block
    ocr             \* scanned PDF: page number |-> the text Tesseract returned for it

vars == << now, GEMINI_API_KEY, disk, pc, route, origin, filePath, analyze,
           extractedText, numPages, pageNo, canvases, res, extracted,
           analysisCalls, networkCalls, unlinks, ocr >>

\* ------------------------------------------------------------- helpers

\* Array.prototype.indexOf on the whitelist: zero-based index, or -1.
IndexOf(seq, x) ==
    IF \E i \in 1..Len(seq) : seq[i] = x
    THEN (CHOOSE i \in 1..Len(seq) :
              seq[i] = x /\ \A j \in 1..(i - 1) : seq[j] # x) - 1
    ELSE -1

\* JavaScript falsiness of a string-or-undefined value: !v
Falsy(v) == v = NoField \/ v = ""

\* corsOptions.origin: TRUE when callback(null, true) is taken.
CorsAllows(o) == IndexOf(whitelist, o) # -1 \/ Falsy(o)

\* String.prototype.trim
RECURSIVE TrimLeft(_)
TrimLeft(s) ==
    IF s # <<>> /\ Head(s) \in Whitespace THEN TrimLeft(Tail(s)) ELSE s

RECURSIVE TrimRight(_)
TrimRight(s) ==
    IF s # <<>> /\ s[Len(s)] \in Whitespace
    THEN TrimRight(SubSeq(s, 1, Len(s) - 1)) ELSE s

Trim(s) == TrimRight(TrimLeft(s))

\* `${Date.now()}_${file.originalname}`
UniqueFilename(t, name) == << t, name >>

\* fs.existsSync
ExistsSync(d, p) == p \in DOMAIN d

\* multer's disk storage opens the path for writing: a new file, or the file
\* that is already there, which the upload then overwrites.
WriteFile(d, p, r) ==
    IF p \in DOMAIN d
    THEN [d EXCEPT ![p] = @ \cup {r}]
    ELSE [q \in DOMAIN d \cup {p} |-> IF q = p THEN {r} ELSE d[q]]

\* fs.unlinkSync
UnlinkSync(d, p) == [q \in DOMAIN d \ {p} |-> d[q]]

\* The staged file of request r is on disk.
FileOnDisk(r) ==
    /\ filePath[r] # NoFile
    /\ filePath[r] \in DOMAIN disk
    /\ r \in disk[filePath[r]]

\* Response bodies.
Json(text, analysis) ==
    [status |-> 200, text |-> text, analysis |-> analysis]
Plain(code) ==
    [status |-> code, text |-> <<>>, analysis |-> NoField]

\* No page has been recognized.
NoPages == [i \in {} |-> << >>]

\* ---------------------------------------------------------------- Init
Init ==
    /\ now = 1
    /\ GEMINI_API_KEY \in EnvKeys
    /\ disk = [p \in {} |-> {}]
    /\ pc = [r \in Reqs |-> "new"]
    /\ route = [r \in Reqs |-> NoField]
    /\ origin = [r \in Reqs |-> NoField]
    /\ filePath = [r \in Reqs |-> NoFile]
    /\ analyze = [r \in Reqs |-> NoField]
    /\ extractedText = [r \in Reqs |-> <<>>]
    /\ numPages = [r \in Reqs |-> 0]
    /\ pageNo = [r \in Reqs |-> 0]
    /\ canvases = [r \in Reqs |-> 0]
    /\ res = [r \in Reqs |-> <<>>]
    /\ extracted = [r \in Reqs |-> FALSE]
    /\ analysisCalls = [r \in Reqs |-> 0]
    /\ networkCalls = [r \in Reqs |-> 0]
    /\ unlinks = [r \in Reqs |-> 0]
    /\ ocr = [r \in Reqs |-> NoPages]

\* --------------------------------------------------------------- actions

\* Date.now() moves on to the next millisecond.
Tick ==
    /\ now < MaxTime
    /\ now' = now + 1
    /\ UNCHANGED << GEMINI_API_KEY, disk, pc, route, origin, filePath, analyze,
                    extractedText, numPages, pageNo, canvases, res, extracted,
                    analysisCalls, networkCalls, unlinks, ocr >>

\* app.use(cors(corsOptions)): a request arrives and passes or fails the
\* origin check; a failed check ends in Express's default error response.
Cors(r) ==
    /\ pc[r] = "new"
    /\ \E rt \in Routes, o \in Origins :
        /\ route' = [route EXCEPT ![r] = rt]
        /\ origin' = [origin EXCEPT ![r] = o]
        /\ IF CorsAllows(o)
           THEN /\ pc' = [pc EXCEPT ![r] = "multer"]
                /\ res' = res
           ELSE /\ pc' = [pc EXCEPT ![r] = "done"]
                /\ res' = [res EXCEPT ![r] = Append(@, Plain(500))]
    /\ UNCHANGED << now, GEMINI_API_KEY, disk, filePath, analyze,
                    extractedText, numPages, pageNo, canvases, extracted,
                    analysisCalls, networkCalls, unlinks, ocr >>

\* upload.single('file'): the file part, when there is one, is written to
\* uploads/ under the name the filename callback computes.
Multer(r) ==
    /\ pc[r] = "multer"
    /\ pc' = [pc EXCEPT ![r] = "handler"]
    /\ \/ /\ \E name \in Names :
               LET p == UniqueFilename(now, name) IN
               /\ filePath' = [filePath EXCEPT ![r] = p]
               /\ disk' = WriteFile(disk, p, r)
       \/ /\ UNCHANGED << filePath, disk >>
    /\ UNCHANGED << now, GEMINI_API_KEY, route, origin, analyze,
                    extractedText, numPages, pageNo, canvases, res, extracted,
                    analysisCalls, networkCalls, unlinks, ocr >>

\* Mutant of NoFileUploaded: the guard is missing.
NoFileUploaded_Missing(fp) == FALSE

\* if (!req.file)
NoFileUploaded(fp) == fp = NoFile

\* Mutant of IsTrue: the flag is tested for truthiness, and "false" is truthy.
IsTrue_Truthy(v) == ~Falsy(v)

\* req.body.analyze === "true" / req.body.scanned === "true"
IsTrue(v) == v = "true"

\* Mutant of ShouldCallAnalysis: the text is not trimmed.
ShouldCallAnalysis_NoTrim(shouldAnalyze, text) == shouldAnalyze /\ text # <<>>

\* shouldAnalyze && extractedText.trim()
ShouldCallAnalysis(shouldAnalyze, text) == shouldAnalyze /\ Trim(text) # <<>>

\* Both routes: if (!req.file) return res.status(400).send("No file uploaded.")
Guard400(r) ==
    /\ pc[r] = "handler"
    /\ NoFileUploaded(filePath[r])
    /\ res' = [res EXCEPT ![r] = Append(@, Plain(400))]
    /\ pc' = [pc EXCEPT ![r] = "done"]
    /\ origin' = [origin EXCEPT ![r] = NoField]
    /\ UNCHANGED << now, GEMINI_API_KEY, disk, route, filePath, analyze,
                    extractedText, numPages, pageNo, canvases, extracted,
                    analysisCalls, networkCalls, unlinks, ocr >>

\* /upload-pdf up to its first await: the flags are read, the staged file is
\* read (readFileSync throws when the path is gone or the read fails), and
\* pdfParse or pdfjsLib.getDocument is started.
PdfStart(r) ==
    /\ pc[r] = "handler"
    /\ route[r] = "/upload-pdf"
    /\ ~NoFileUploaded(filePath[r])
    /\ \E scanned \in FlagValues, ioOk \in BOOLEAN :
        /\ IF ExistsSync(disk, filePath[r]) /\ ioOk
           THEN pc' = [pc EXCEPT ![r] =
                          IF IsTrue(scanned) THEN "getDocument" ELSE "pdfParse"]
           ELSE pc' = [pc EXCEPT ![r] = "catch"]
    /\ origin' = [origin EXCEPT ![r] = NoField]
    /\ UNCHANGED << now, GEMINI_API_KEY, disk, route, filePath, analyze,
                    extractedText, numPages, pageNo, canvases, res, extracted,
                    analysisCalls, networkCalls, unlinks, ocr >>

\* /upload-image up to its first await: Tesseract.recognize(filePath) starts.
ImageStart(r) ==
    /\ pc[r] = "handler"
    /\ route[r] = "/upload-image"
    /\ ~NoFileUploaded(filePath[r])
    /\ pc' = [pc EXCEPT ![r] = "recognize"]
    /\ origin' = [origin EXCEPT ![r] = NoField]
    /\ UNCHANGED << now, GEMINI_API_KEY, disk, route, filePath, analyze,
                    extractedText, numPages, pageNo, canvases, res, extracted,
                    analysisCalls, networkCalls, unlinks, ocr >>

\* await pdfParse(dataBuffer) settles: the text, or a rejection.
PdfParseReturn(r) ==
    /\ pc[r] = "pdfParse"
    /\ \/ \E text \in DocTexts :
            /\ extractedText' = [extractedText EXCEPT ![r] = text]
            /\ extracted' = [extracted EXCEPT ![r] = TRUE]
            /\ pc' = [pc EXCEPT ![r] = "extracted"]
       \/ /\ pc' = [pc EXCEPT ![r] = "catch"]
          /\ UNCHANGED << extractedText, extracted >>
    /\ UNCHANGED << now, GEMINI_API_KEY, disk, route, origin, filePath, analyze,
                    numPages, pageNo, canvases, res,
                    analysisCalls, networkCalls, unlinks, ocr >>

\* await Tesseract.recognize(filePath, "eng") settles (image route).
RecognizeReturn(r) ==
    /\ pc[r] = "recognize"
    /\ \/ \E text \in DocTexts :
            /\ extractedText' = [extractedText EXCEPT ![r] = text]
            /\ extracted' = [extracted EXCEPT ![r] = TRUE]
            /\ pc' = [pc EXCEPT ![r] = "extracted"]
       \/ /\ pc' = [pc EXCEPT ![r] = "catch"]
          /\ UNCHANGED << extractedText, extracted >>
    /\ UNCHANGED << now, GEMINI_API_KEY, disk, route, origin, filePath, analyze,
                    numPages, pageNo, canvases, res,
                    analysisCalls, networkCalls, unlinks, ocr >>

\* await pdfjsLib.getDocument({ data }).promise settles with a document of at
\* least one page; the loop starts at i = 1 and enters its body (1 <= numPages).
GetDocumentReturn(r) ==
    /\ pc[r] = "getDocument"
    /\ \/ \E n \in 1..MaxPages :
            /\ numPages' = [numPages EXCEPT ![r] = n]
            /\ pageNo' = [pageNo EXCEPT ![r] = 1]
            /\ pc' = [pc EXCEPT ![r] = "getPage"]
       \/ /\ pc' = [pc EXCEPT ![r] = "catch"]
          /\ UNCHANGED << numPages, pageNo >>
    /\ UNCHANGED << now, GEMINI_API_KEY, disk, route, origin, filePath, analyze,
                    extractedText, canvases, res, extracted,
                    analysisCalls, networkCalls, unlinks, ocr >>

\* await doc.getPage(i) settles; the page's canvas is created.
GetPageReturn(r) ==
    /\ pc[r] = "getPage"
    /\ \/ /\ canvases' = [canvases EXCEPT ![r] = @ + 1]
          /\ pc' = [pc EXCEPT ![r] = "render"]
          /\ UNCHANGED << numPages, pageNo >>
       \/ /\ pc' = [pc EXCEPT ![r] = "catch"]
          /\ numPages' = [numPages EXCEPT ![r] = 0]
          /\ pageNo' = [pageNo EXCEPT ![r] = 0]
          /\ UNCHANGED canvases
    /\ UNCHANGED << now, GEMINI_API_KEY, disk, route, origin, filePath, analyze,
                    extractedText, res, extracted,
                    analysisCalls, networkCalls, unlinks, ocr >>

\* await page.render(...).promise settles; Tesseract.recognize(imageBuffer) starts.
RenderReturn(r) ==
    /\ pc[r] = "render"
    /\ \/ /\ pc' = [pc EXCEPT ![r] = "recognizePage"]
          /\ UNCHANGED << numPages, pageNo >>
       \/ /\ pc' = [pc EXCEPT ![r] = "catch"]
          /\ numPages' = [numPages EXCEPT ![r] = 0]
          /\ pageNo' = [pageNo EXCEPT ![r] = 0]
    /\ UNCHANGED << now, GEMINI_API_KEY, disk, route, origin, filePath, analyze,
                    extractedText, canvases, res, extracted,
                    analysisCalls, networkCalls, unlinks, ocr >>

\* Mutant of RecognizePageReturn: canvasFactory.destroy(canvasAndContext) is
\* not called, so the page's canvas stays alive into the next iteration.
RecognizePageReturn_NoDestroy(r) ==
    /\ pc[r] = "recognizePage"
    /\ \/ \E text \in PageTexts :
            /\ extractedText' = [extractedText EXCEPT ![r] = @ \o text \o <<"\n">>]
            /\ ocr' = [ocr EXCEPT ![r] = (pageNo[r] :> text) @@ @]
            /\ canvases' = canvases
            /\ IF pageNo[r] + 1 <= numPages[r]
               THEN /\ pageNo' = [pageNo EXCEPT ![r] = @ + 1]
                    /\ pc' = [pc EXCEPT ![r] = "getPage"]
                    /\ UNCHANGED << numPages, extracted >>
               ELSE /\ pageNo' = [pageNo EXCEPT ![r] = 0]
                    /\ numPages' = [numPages EXCEPT ![r] = 0]
                    /\ pc' = [pc EXCEPT ![r] = "extracted"]
                    /\ extracted' = [extracted EXCEPT ![r] = TRUE]
       \/ /\ pc' = [pc EXCEPT ![r] = "catch"]
          /\ numPages' = [numPages EXCEPT ![r] = 0]
          /\ pageNo' = [pageNo EXCEPT ![r] = 0]
          /\ UNCHANGED << extractedText, canvases, extracted, ocr >>
    /\ UNCHANGED << now, GEMINI_API_KEY, disk, route, origin, filePath, analyze,
                    res, analysisCalls, networkCalls, unlinks >>

\* await Tesseract.recognize(imageBuffer, "eng") settles for page i: the text
\* and a newline are appended, the page and its canvas are released, i++;
\* doc and i go out of scope when the loop is left, normally or by a throw.
RecognizePageReturn(r) ==
    /\ pc[r] = "recognizePage"
    /\ \/ \E text \in PageTexts :
            /\ extractedText' = [extractedText EXCEPT ![r] = @ \o text \o <<"\n">>]
            /\ ocr' = [ocr EXCEPT ![r] = (pageNo[r] :> text) @@ @]
            /\ canvases' = [canvases EXCEPT ![r] = @ - 1]
            /\ IF pageNo[r] + 1 <= numPages[r]
               THEN /\ pageNo' = [pageNo EXCEPT ![r] = @ + 1]
                    /\ pc' = [pc EXCEPT ![r] = "getPage"]
                    /\ UNCHANGED << numPages, extracted >>
               ELSE /\ pageNo' = [pageNo EXCEPT ![r] = 0]
                    /\ numPages' = [numPages EXCEPT ![r] = 0]
                    /\ pc' = [pc EXCEPT ![r] = "extracted"]
                    /\ extracted' = [extracted EXCEPT ![r] = TRUE]
       \/ /\ pc' = [pc EXCEPT ![r] = "catch"]
          /\ numPages' = [numPages EXCEPT ![r] = 0]
          /\ pageNo' = [pageNo EXCEPT ![r] = 0]
          /\ UNCHANGED << extractedText, canvases, extracted, ocr >>
    /\ UNCHANGED << now, GEMINI_API_KEY, disk, route, origin, filePath, analyze,
                    res, analysisCalls, networkCalls, unlinks >>

\* Mutant of AnalysisBranch: getSocialMediaAnalysis does not test the API key
\* and always issues axios.post.
AnalysisBranch_NoKeyCheck(r) ==
    /\ pc[r] = "extracted"
    /\ \E an \in FlagValues :
        /\ analyze' = [analyze EXCEPT ![r] = an]
        /\ IF ShouldCallAnalysis(IsTrue(an), extractedText[r])
           THEN /\ analysisCalls' = [analysisCalls EXCEPT ![r] = @ + 1]
                /\ res' = res
                /\ pc' = [pc EXCEPT ![r] = "axios"]
                /\ networkCalls' = [networkCalls EXCEPT ![r] = @ + 1]
           ELSE /\ res' = [res EXCEPT ![r] = Append(@, Json(extractedText[r], Null))]
                /\ pc' = [pc EXCEPT ![r] = "finally"]
                /\ UNCHANGED << analysisCalls, networkCalls >>
    /\ UNCHANGED << now, GEMINI_API_KEY, disk, route, origin, filePath,
                    extractedText, numPages, pageNo, canvases, extracted, unlinks,
                    ocr >>

\* After "Text extraction complete.": the analysis branch.  A call of
\* getSocialMediaAnalysis throws at once without an API key and otherwise
\* issues axios.post; without a call, res.json({text, analysis: null}).
AnalysisBranch(r) ==
    /\ pc[r] = "extracted"
    /\ \E an \in FlagValues :
        /\ analyze' = [analyze EXCEPT ![r] = an]
        /\ IF ShouldCallAnalysis(IsTrue(an), extractedText[r])
           THEN /\ analysisCalls' = [analysisCalls EXCEPT ![r] = @ + 1]
                /\ res' = res
                /\ IF Falsy(GEMINI_API_KEY)
                   THEN /\ pc' = [pc EXCEPT ![r] = "catch"]
                        /\ networkCalls' = networkCalls
                   ELSE /\ pc' = [pc EXCEPT ![r] = "axios"]
                        /\ networkCalls' = [networkCalls EXCEPT ![r] = @ + 1]
           ELSE /\ res' = [res EXCEPT ![r] = Append(@, Json(extractedText[r], Null))]
                /\ pc' = [pc EXCEPT ![r] = "finally"]
                /\ UNCHANGED << analysisCalls, networkCalls >>
    /\ UNCHANGED << now, GEMINI_API_KEY, disk, route, origin, filePath,
                    extractedText, numPages, pageNo, canvases, extracted, unlinks,
                    ocr >>

\* Mutant of AxiosReturn: a failed analysis is swallowed and the text is sent
\* with a null analysis.
AxiosReturn_Swallow(r) ==
    /\ pc[r] = "axios"
    /\ \/ \E a \in AiTexts :
            res' = [res EXCEPT ![r] = Append(@, Json(extractedText[r], a))]
       \/ res' = [res EXCEPT ![r] = Append(@, Json(extractedText[r], Null))]
    /\ pc' = [pc EXCEPT ![r] = "finally"]
    /\ UNCHANGED << now, GEMINI_API_KEY, disk, route, origin, filePath, analyze,
                    extractedText, numPages, pageNo, canvases, extracted,
                    analysisCalls, networkCalls, unlinks, ocr >>

\* await axios.post(...) settles: a candidate with text is returned and
\* res.json({text, analysis}) is sent; a response without one, or a failed
\* call, is rethrown as "AI analysis failed".
AxiosReturn(r) ==
    /\ pc[r] = "axios"
    /\ \/ \E a \in AiTexts :
            /\ res' = [res EXCEPT ![r] = Append(@, Json(extractedText[r], a))]
            /\ pc' = [pc EXCEPT ![r] = "finally"]
       \/ /\ pc' = [pc EXCEPT ![r] = "catch"]
          /\ res' = res
    /\ UNCHANGED << now, GEMINI_API_KEY, disk, route, origin, filePath, analyze,
                    extractedText, numPages, pageNo, canvases, extracted,
                    analysisCalls, networkCalls, unlinks, ocr >>

\* Mutant of Catch: the error is logged and no response is sent.
Catch_Silent(r) ==
    /\ pc[r] = "catch"
    /\ pc' = [pc EXCEPT ![r] = "finally"]
    /\ UNCHANGED << now, GEMINI_API_KEY, disk, route, origin, filePath, analyze,
                    extractedText, numPages, pageNo, canvases, res, extracted,
                    analysisCalls, networkCalls, unlinks, ocr >>

\* catch (err): res.status(500).send(...)
Catch(r) ==
    /\ pc[r] = "catch"
    /\ res' = [res EXCEPT ![r] = Append(@, Plain(500))]
    /\ pc' = [pc EXCEPT ![r] = "finally"]
    /\ UNCHANGED << now, GEMINI_API_KEY, disk, route, origin, filePath, analyze,
                    extractedText, numPages, pageNo, canvases, extracted,
                    analysisCalls, networkCalls, unlinks, ocr >>

\* Mutant of Finally: the cleanup sits at the end of the try block, so it is
\* skipped when the catch block ran.
Finally_SuccessOnly(r) ==
    /\ pc[r] = "finally"
    /\ IF ExistsSync(disk, filePath[r]) /\ res[r][Len(res[r])].status = 200
       THEN /\ disk' = UnlinkSync(disk, filePath[r])
            /\ unlinks' = [unlinks EXCEPT ![r] = @ + 1]
       ELSE UNCHANGED << disk, unlinks >>
    /\ pc' = [pc EXCEPT ![r] = "done"]
    /\ analyze' = [analyze EXCEPT ![r] = NoField]
    /\ extractedText' = [extractedText EXCEPT ![r] = <<>>]
    /\ extracted' = [extracted EXCEPT ![r] = FALSE]
    /\ canvases' = [canvases EXCEPT ![r] = 0]
    /\ ocr' = [ocr EXCEPT ![r] = NoPages]
    /\ UNCHANGED << now, GEMINI_API_KEY, route, origin, filePath,
                    numPages, pageNo, res, analysisCalls, networkCalls >>

\* finally: if (fs.existsSync(filePath)) fs.unlinkSync(filePath); the handler
\* then returns and its locals (and the request's fields) are out of scope.
Finally(r) ==
    /\ pc[r] = "finally"
    /\ IF ExistsSync(disk, filePath[r])
       THEN /\ disk' = UnlinkSync(disk, filePath[r])
            /\ unlinks' = [unlinks EXCEPT ![r] = @ + 1]
       ELSE UNCHANGED << disk, unlinks >>
    /\ pc' = [pc EXCEPT ![r] = "done"]
    /\ analyze' = [analyze EXCEPT ![r] = NoField]
    /\ extractedText' = [extractedText EXCEPT ![r] = <<>>]
    /\ extracted' = [extracted EXCEPT ![r] = FALSE]
    /\ canvases' = [canvases EXCEPT ![r] = 0]
    /\ ocr' = [ocr EXCEPT ![r] = NoPages]
    /\ UNCHANGED << now, GEMINI_API_KEY, route, origin, filePath,
                    numPages, pageNo, res, analysisCalls, networkCalls >>


\* ------------------------------------------------------------ properties

Staged(r) == filePath[r] # NoFile

\* The positions at which extraction or analysis of a request is in progress.
Extracting == { "pdfParse", "getDocument", "getPage", "render",
                "recognizePage", "recognize" }
Analyzing  == { "axios" }

\* C1: once a request that staged a file has finished (200 or 500), its
\* staged file is no longer on disk.
C1_StagedFileGone ==
    \A r \in Reqs : pc[r] = "done" /\ Staged(r) => ~FileOnDisk(r)

\* C1 witness: a request whose extraction failed has finished with a 500 and
\* its handler deleted the staged file.
C1_Witness ==
    \E r \in Reqs :
        /\ pc[r] = "done" /\ Staged(r)
        /\ res[r] = << Plain(500) >>
        /\ analysisCalls[r] = 0
        /\ unlinks[r] = 1

\* C2: getSocialMediaAnalysis is invoked exactly once when extraction
\* completed, analyze is the string "true" and the trimmed text is not empty,
\* and is not invoked otherwise.
C2_AnalysisIff ==
    \A r \in Reqs :
        /\ pc[r] \in { "axios", "catch", "finally" } =>
              analysisCalls[r] =
                  IF /\ extracted[r]
                     /\ analyze[r] = "true"
                     /\ Trim(extractedText[r]) # <<>>
                  THEN 1 ELSE 0
        /\ pc[r] \in { "new", "multer", "handler", "extracted" } \cup Extracting =>
              analysisCalls[r] = 0
        /\ analysisCalls[r] <= 1

\* C2 witness: one request asked for analysis of whitespace-only text and got
\* none, another asked for analysis of non-empty text and the client was called.
C2_Witness ==
    \E r1, r2 \in Reqs :
        /\ pc[r1] = "finally" /\ analyze[r1] = "true"
        /\ extractedText[r1] = << " ", "\n" >>
        /\ analysisCalls[r1] = 0
        /\ res[r1] = << Json(<< " ", "\n" >>, Null) >>
        /\ pc[r2] = "finally" /\ analyze[r2] = "true"
        /\ extractedText[r2] = << " ", "a" >>
        /\ analysisCalls[r2] = 1

\* C3: a 200 response to a request whose analyze field is not the string
\* "true" carries analysis: null.
C3_NoAnalyzeNullAnalysis ==
    \A r \in Reqs :
        pc[r] = "finally" /\ analyze[r] # "true" =>
            \A i \in 1..Len(res[r]) :
                res[r][i].status = 200 => res[r][i].analysis = Null

\* C3 witness: analyze is "false", the text is not empty, an API key is
\* configured, and the response carries the text with analysis: null.
C3_Witness ==
    \E r \in Reqs :
        /\ pc[r] = "finally" /\ analyze[r] = "false"
        /\ GEMINI_API_KEY = "key"
        /\ res[r] = << Json(<< " ", "a" >>, Null) >>

C5_NoPartialSuccess ==
    \A r \in Reqs :
        analysisCalls[r] >= 1 =>
            /\ \A i \in 1..Len(res[r]) :
                  \/ res[r][i] = Plain(500)
                  \/ res[r][i].status = 200 /\ res[r][i].analysis \in AiTexts
            /\ pc[r] \in { "axios", "catch" } => res[r] = << >>
            /\ pc[r] \in { "finally", "done" } => Len(res[r]) = 1

\* C5 witness: extraction succeeded, the network call was made and failed,
\* and the request was answered with the generic 500.
C5_Witness ==
    \E r \in Reqs :
        /\ pc[r] = "finally" /\ extracted[r]
        /\ analysisCalls[r] = 1 /\ networkCalls[r] = 1
        /\ res[r] = << Plain(500) >>

\* C6: a request that staged a file has no response while its try block runs
\* and exactly one, the 200 payload or the generic 500, from then on.
C6_ExactlyOneResponse ==
    \A r \in Reqs :
        Staged(r) =>
            IF pc[r] \in { "finally", "done" }
            THEN /\ Len(res[r]) = 1
                 /\ \/ res[r][1] = Plain(500)
                    \/ /\ res[r][1].status = 200
                       /\ res[r][1].analysis \in AiTexts \cup { Null }
            ELSE res[r] = << >>

\* C6 witness: OCR of a scanned PDF failed on a page after the first, and the
\* request was answered once, with the 500.
C6_Witness ==
    \E r \in Reqs :
        /\ pc[r] = "finally" /\ Staged(r) /\ ~extracted[r]
        /\ extractedText[r] # << >>
        /\ res[r] = << Plain(500) >>

\* C7: a request whose Origin header is present with a value outside the
\* allow-list is rejected by the CORS check, before anything is staged,
\* extracted or analysed; a listed or absent Origin is admitted.
C7_UnlistedOriginRejected ==
    \A r \in Reqs :
        /\ origin[r] # NoField /\ IndexOf(whitelist, origin[r]) = -1 =>
              /\ pc[r] = "done"
              /\ ~Staged(r)
              /\ analysisCalls[r] = 0
        /\ origin[r] = NoField \/ IndexOf(whitelist, origin[r]) # -1 =>
              ~(pc[r] = "done" /\ res[r] = << Plain(500) >> /\ ~Staged(r))

\* C8: no two requests share a staged path: every staged file was written
\* by one request only, and the paths of two staged requests differ.
C8_StagedPathUnique ==
    /\ \A p \in DOMAIN disk : Cardinality(disk[p]) <= 1
    /\ \A r1, r2 \in Reqs :
          r1 # r2 /\ Staged(r1) /\ Staged(r2) => filePath[r1] # filePath[r2]

\* C9: in one request extraction completes before analysis begins, the
\* response is sent only after both, the file is removed only after the
\* response, and the file is on disk while extraction or analysis runs.
C9_StepOrder ==
    \A r \in Reqs :
        /\ pc[r] \in Analyzing => extracted[r]
        /\ pc[r] \in Extracting => analysisCalls[r] = 0
        /\ res[r] # << >> => pc[r] \in { "finally", "done" }
        /\ unlinks[r] >= 1 => pc[r] = "done" /\ res[r] # << >>
        /\ pc[r] \in Extracting \cup Analyzing => FileOnDisk(r)

\* C10: the staged file is on disk from its creation until the handler's
\* cleanup step, and that step deletes it exactly once on every exit path.
C10_FileUntilCleanup ==
    \A r \in Reqs :
        Staged(r) =>
            /\ pc[r] # "done" => FileOnDisk(r) /\ unlinks[r] = 0
            /\ pc[r] = "done" => ~FileOnDisk(r) /\ unlinks[r] = 1

\* The texts of pages 1..n, in page order, each followed by a newline.
RECURSIVE PagesText(_, _)
PagesText(f, n) ==
    IF n = 0 THEN << >> ELSE PagesText(f, n - 1) \o f[n] \o << "\n" >>

\* While page i of a scanned PDF is fetched, rendered or recognized, exactly
\* pages 1..i-1 have been recognized and the text is theirs in page order;
\* no canvas is alive while a page is fetched and one while it is rendered
\* or recognized; after the loop the text is that of all recognized pages.
C11_PageState ==
    \A r \in Reqs :
        /\ canvases[r] <= 1
        /\ pc[r] \in { "getPage", "render", "recognizePage" } =>
              /\ 1 <= pageNo[r] /\ pageNo[r] <= numPages[r]
              /\ DOMAIN ocr[r] = 1..(pageNo[r] - 1)
              /\ extractedText[r] = PagesText(ocr[r], pageNo[r] - 1)
              /\ canvases[r] = IF pc[r] = "getPage" THEN 0 ELSE 1
        /\ pc[r] = "extracted" /\ DOMAIN ocr[r] # {} =>
              /\ canvases[r] = 0
              /\ DOMAIN ocr[r] = 1..Cardinality(DOMAIN ocr[r])
              /\ extractedText[r] =
                     PagesText(ocr[r], Cardinality(DOMAIN ocr[r]))

\* The loop starts at page 1, moves from page i to page i+1 only, and is left
\* normally only when all doc.numPages pages have been recognized.
C11_PageStep ==
    \A r \in Reqs :
        /\ pc[r] = "getDocument" /\ pc'[r] = "getPage" => pageNo'[r] = 1
        /\ pc[r] = "recognizePage" /\ pc'[r] = "getPage" =>
              pageNo'[r] = pageNo[r] + 1 /\ canvases'[r] = 0
        /\ pc[r] = "recognizePage" /\ pc'[r] = "extracted" =>
              DOMAIN ocr'[r] = 1..numPages[r] /\ pageNo[r] = numPages[r]

\* C11: in OCR mode the pages of a PDF are processed one at a time in the
\* order 1..N: page i+1 is fetched only after page i's text and a newline
\* were appended and its canvas released, at most one page canvas is alive,
\* and the final text is the page texts in page order, each with a newline.
C11_SequentialPages == []C11_PageState /\ [][C11_PageStep]_vars

\* C11 witness: a two-page scanned PDF whose first page reads "a" and whose
\* second page is blank has been extracted as "a\n\n".
C11_Witness ==
    \E r \in Reqs :
        /\ pc[r] = "extracted"
        /\ DOMAIN ocr[r] = 1..2
        /\ ocr[r][1] = << "a" >> /\ ocr[r][2] = << >>
        /\ extractedText[r] = << "a", "\n", "\n" >>
        /\ canvases[r] = 0

\* C12: without an API key no axios.post is ever issued, and a request whose
\* handler called the analysis client is in the catch block with nothing
\* sent, or has been answered with the generic 500.
C12_NoKeyNoNetwork ==
    Falsy(GEMINI_API_KEY) =>
        \A r \in Reqs :
            /\ networkCalls[r] = 0
            /\ pc[r] # "axios"
            /\ analysisCalls[r] >= 1 =>
                  \/ pc[r] = "catch" /\ res[r] = << >>
                  \/ pc[r] \in { "finally", "done" } /\ res[r] = << Plain(500) >>

\* C12 witness: no API key, extraction succeeded, the analysis client was
\* called, no network call was made and the request got the 500.
C12_Witness ==
    \E r \in Reqs :
        /\ Falsy(GEMINI_API_KEY)
        /\ pc[r] = "finally" /\ extracted[r]
        /\ analysisCalls[r] = 1 /\ networkCalls[r] = 0
        /\ res[r] = << Plain(500) >>

Next ==
    \/ Tick
    \/ \E r \in Reqs : Cors(r)
    \/ \E r \in Reqs : Multer(r)
    \/ \E r \in Reqs : Guard400(r)
    \/ \E r \in Reqs : PdfStart(r)
    \/ \E r \in Reqs : ImageStart(r)
    \/ \E r \in Reqs : PdfParseReturn(r)
    \/ \E r \in Reqs : RecognizeReturn(r)
    \/ \E r \in Reqs : GetDocumentReturn(r)
    \/ \E r \in Reqs : GetPageReturn(r)
    \/ \E r \in Reqs : RenderReturn(r)
    \/ \E r \in Reqs : RecognizePageReturn(r)
    \/ \E r \in Reqs : AnalysisBranch(r)
    \/ \E r \in Reqs : AxiosReturn(r)
    \/ \E r \in Reqs : Catch(r)
    \/ \E r \in Reqs : Finally(r)

Spec == Init /\ [][Next]_vars

====
